---- MODULE Spec2Model ----
(***************************************************************************)
(* A model of advanced-vector/vector.h: RawMemory<T> (a raw block of       *)
(* capacity slots) and Vector<T> (a block plus the number of constructed   *)
(* elements).  Every slot of every block records whether it holds a        *)
(* constructed element and which value; every operation is translated      *)
(* statement by statement, including the point where an element            *)
(* constructor throws and the stack unwinding that follows.                *)
(***************************************************************************)
EXTENDS Integers, Sequences, FiniteSets, TLC

\* ------------------------------------------------------------------ bounds
MaxCap == 4
MaxHeap == 4
MaxFuse == 2
MaxBlocks == 3

\* ------------------------------------------------------------ element type
\* The element types T the template is instantiated with, by the two traits
\* the code asks for (std::is_nothrow_move_constructible_v<T>,
\* std::is_copy_constructible_v<T>).
Types == {"NothrowMove", "ThrowingMove", "MoveOnly"}
NothrowMoveConstructible(t) == t = "NothrowMove"
CopyConstructible(t) == t # "MoveOnly"

\* The value of a slot: Raw is uninitialized memory (no constructed element);
\* Unspecified is an element whose value nothing guarantees: one that was
\* moved from, one read from raw memory, or what an assignment to a slot
\* without an element leaves behind when it does not happen to work.
Raw == "raw"
Unspecified == "unspecified"
MovedFrom == Unspecified
Indet == Unspecified
Default == "0"
Values == {"0", "1"}
Live(s) == s # Raw

Vecs == {"a", "b"}
Null == 0
BlockIds == 1..MaxBlocks

VARIABLES T, vec, heap, pushed
vars == <<T, vec, heap, pushed>>

\* ------------------------------------------------------------- RawMemory
\* The running state of one call: the heap, the countdown to the element
\* operation that throws (0: none throws), whether an exception is in
\* flight, the lifetime faults seen, and the numbers of live elements
\* destroyed (nd), of elements constructed (nc), of those copy-constructed
\* (ncp) and move-constructed (nmv) from another slot, and of element
\* assignments (na).
Ctx(h, fuse, ub) ==
    [heap |-> h, fuse |-> fuse, ub |-> ub, threw |-> FALSE, faults |-> {}, nd |-> 0,
     nc |-> 0, ncp |-> 0, nmv |-> 0, na |-> 0]

RawSlots(n) == [i \in 1..n |-> Raw]

FreeIds(h) == {b \in BlockIds : h[b] = <<>>}

\* An allocator that returns a block address for n = 0 as well.
Allocate_NeverNull(h, n) == CHOOSE b \in FreeIds(h) : \A o \in FreeIds(h) : b <= o

\* RawMemory::Allocate: the address of a fresh block, nullptr for n = 0.
Allocate(h, n) == IF n = 0 THEN Null ELSE CHOOSE b \in FreeIds(h) : \A o \in FreeIds(h) : b <= o

\* RawMemory(size_t capacity): the allocated block, all slots raw.
RawMemoryNew(c, b, n) == IF b = Null THEN c ELSE [c EXCEPT !.heap[b] = RawSlots(n)]

\* RawMemory::Deallocate (from ~RawMemory): releases the block, destroying
\* nothing; the elements still constructed in it are lost.
Deallocate(c, b) ==
    IF b = Null THEN c
    ELSE [c EXCEPT !.heap[b] = <<>>,
                   !.faults = @ \cup (IF \E i \in 1..Len(c.heap[b]) : Live(c.heap[b][i])
                                      THEN {"dealloc_live"} ELSE {})]

\* ------------------------------------------------------ element operations
\* The value read from slot i (0-based) of block b.
SlotVal(c, b, i) == IF Live(c.heap[b][i + 1]) THEN c.heap[b][i + 1] ELSE Indet
ReadFault(c, b, i) == IF Live(c.heap[b][i + 1]) THEN {} ELSE {"use_raw"}

\* One element operation that may throw: it throws when the countdown is 1.
Throws(c, may) == may /\ c.fuse = 1
Tick(c, may) == IF may /\ c.fuse > 1 THEN c.fuse - 1 ELSE c.fuse
Thrown(c) == [c EXCEPT !.threw = TRUE, !.fuse = 0]

\* new (b + i) T(val): placement construction of an element with value val.
ConstructAt(c, b, i, val, may, rf) ==
    IF Throws(c, may) THEN Thrown(c)
    ELSE [c EXCEPT !.heap[b][i + 1] = val,
                   !.fuse = Tick(c, may),
                   !.nc = @ + 1,
                   !.faults = @ \cup rf \cup
                       (IF Live(c.heap[b][i + 1]) THEN {"construct_over_live"} ELSE {})]

\* new (db + di) T(*(sb + si)): copy construction from another slot.
CopyConstruct(c, sb, si, db, di) ==
    LET c1 == ConstructAt(c, db, di, SlotVal(c, sb, si), TRUE, ReadFault(c, sb, si))
    IN IF c1.threw THEN c1 ELSE [c1 EXCEPT !.ncp = @ + 1]

\* new (db + di) T(std::move(*(sb + si))): move construction; the source is
\* left moved-from.
MoveConstruct(c, sb, si, db, di) ==
    LET c1 == ConstructAt(c, db, di, SlotVal(c, sb, si),
                          ~NothrowMoveConstructible(T), ReadFault(c, sb, si))
    IN IF c1.threw THEN c1
       ELSE IF ~Live(c.heap[sb][si + 1]) THEN [c1 EXCEPT !.nmv = @ + 1]
       ELSE [c1 EXCEPT !.heap[sb][si + 1] = MovedFrom, !.nmv = @ + 1]

\* The outcome of assigning val to slot (b, i): the value when the slot holds
\* an element; when it does not, the behaviour is undefined.
Assigned(c, b, i, val) == IF Live(c.heap[b][i + 1]) \/ ~c.ub THEN val ELSE Indet
AssignFault(c, b, i) == IF Live(c.heap[b][i + 1]) THEN {} ELSE {"assign_raw"}

\* *(db + di) = *(sb + si): copy assignment.
CopyAssignElem(c, sb, si, db, di) ==
    IF Throws(c, TRUE) THEN Thrown(c)
    ELSE [c EXCEPT !.heap[db][di + 1] = Assigned(c, db, di, SlotVal(c, sb, si)),
                   !.fuse = Tick(c, TRUE),
                   !.na = @ + 1,
                   !.faults = @ \cup ReadFault(c, sb, si) \cup AssignFault(c, db, di)]

\* *(db + di) = std::move(*(sb + si)): move assignment.
MoveAssignElem(c, sb, si, db, di) ==
    LET may == ~NothrowMoveConstructible(T) IN
    IF Throws(c, may) THEN Thrown(c)
    ELSE LET c1 == [c EXCEPT !.heap[db][di + 1] = Assigned(c, db, di, SlotVal(c, sb, si)),
                             !.fuse = Tick(c, may),
                             !.na = @ + 1,
                             !.faults = @ \cup ReadFault(c, sb, si) \cup AssignFault(c, db, di)]
         IN IF Live(c.heap[sb][si + 1]) THEN [c1 EXCEPT !.heap[sb][si + 1] = MovedFrom] ELSE c1

\* std::destroy_at(b + i).
DestroyAt(c, b, i) ==
    IF Live(c.heap[b][i + 1])
    THEN [c EXCEPT !.heap[b][i + 1] = Raw, !.nd = @ + 1]
    ELSE [c EXCEPT !.faults = @ \cup {"destroy_raw"}]

\* std::destroy_n(b + off, n); also Vector::DestroyN.
RECURSIVE DestroyN(_, _, _, _)
DestroyN(c, b, off, n) ==
    IF n = 0 THEN c ELSE DestroyN(DestroyAt(c, b, off), b, off + 1, n - 1)

\* std::uninitialized_copy_n(sb + so, n, db + do): on a throw the elements
\* already constructed in the destination are destroyed.
RECURSIVE UCopyFrom(_, _, _, _, _, _, _)
UCopyFrom(c, sb, so, n, db, do, k) ==
    IF k = n THEN c
    ELSE LET c1 == CopyConstruct(c, sb, so + k, db, do + k)
         IN IF c1.threw THEN DestroyN(c1, db, do, k)
            ELSE UCopyFrom(c1, sb, so, n, db, do, k + 1)
UninitializedCopyN(c, sb, so, n, db, do) == UCopyFrom(c, sb, so, n, db, do, 0)

\* std::uninitialized_move_n(sb + so, n, db + do).
RECURSIVE UMoveFrom(_, _, _, _, _, _, _)
UMoveFrom(c, sb, so, n, db, do, k) ==
    IF k = n THEN c
    ELSE LET c1 == MoveConstruct(c, sb, so + k, db, do + k)
         IN IF c1.threw THEN DestroyN(c1, db, do, k)
            ELSE UMoveFrom(c1, sb, so, n, db, do, k + 1)
UninitializedMoveN(c, sb, so, n, db, do) == UMoveFrom(c, sb, so, n, db, do, 0)

\* std::uninitialized_value_construct_n(b + off, n).
RECURSIVE UValueFrom(_, _, _, _, _)
UValueFrom(c, b, off, n, k) ==
    IF k = n THEN c
    ELSE LET c1 == ConstructAt(c, b, off + k, Default, TRUE, {})
         IN IF c1.threw THEN DestroyN(c1, b, off, k)
            ELSE UValueFrom(c1, b, off, n, k + 1)
UninitializedValueConstructN(c, b, off, n) == UValueFrom(c, b, off, n, 0)

\* The relocation the reallocating operations select with
\* if constexpr (is_nothrow_move_constructible_v<T> || !is_copy_constructible_v<T>).
RelocatesByMove == NothrowMoveConstructible(T) \/ ~CopyConstructible(T)
\* A relocation that moves whatever the element type.
Relocate_AlwaysMove(c, sb, so, n, db, do) == UninitializedMoveN(c, sb, so, n, db, do)

Relocate(c, sb, so, n, db, do) ==
    IF RelocatesByMove THEN UninitializedMoveN(c, sb, so, n, db, do)
    ELSE UninitializedCopyN(c, sb, so, n, db, do)


\* ------------------------------------------------------------------ Vector
\* No iterator or reference: what a call that threw or returns void yields.
NoRet == <<Null, 0>>

\* A call works on S = [vec, c]: the vectors and the running state.
NoVec == [alive |-> FALSE, buf |-> Null, cap |-> 0, size |-> 0]
EmptyVec == [alive |-> TRUE, buf |-> Null, cap |-> 0, size |-> 0]

\* What the caller passes for the new element: a value of its own or a
\* reference to element idx of the same vector, taken by copy or by move.
ArgVal(c, buf, arg) == IF arg.src = "elem" THEN SlotVal(c, buf, arg.idx) ELSE arg.val
ArgFault(c, buf, arg) == IF arg.src = "elem" THEN ReadFault(c, buf, arg.idx) ELSE {}
ArgMayThrow(arg) == arg.how = "copy" \/ ~NothrowMoveConstructible(T)

\* new (db + di) T(std::forward<Args>(args)...).
ConstructFromArg(c, db, di, arg, buf) ==
    ConstructAt(c, db, di, ArgVal(c, buf, arg), ArgMayThrow(arg), ArgFault(c, buf, arg))

\* Vector::Reserve.
Reserve(S, v, new_capacity) ==
    LET d == S.vec[v] IN
    IF new_capacity <= d.cap THEN S
    ELSE LET nb == Allocate(S.c.heap, new_capacity)
             c1 == RawMemoryNew(S.c, nb, new_capacity)
             c2 == Relocate(c1, d.buf, 0, d.size, nb, 0)
         IN IF c2.threw THEN [S EXCEPT !.c = Deallocate(c2, nb)]
            ELSE LET c3 == DestroyN(c2, d.buf, 0, d.size)
                 IN [vec |-> [S.vec EXCEPT ![v].buf = nb, ![v].cap = new_capacity],
                     c |-> Deallocate(c3, d.buf)]

\* Vector::Resize.
Resize(S, v, new_size) ==
    LET d == S.vec[v] IN
    IF new_size > d.size
    THEN LET S1 == Reserve(S, v, new_size) IN
         IF S1.c.threw THEN S1
         ELSE LET c2 == UninitializedValueConstructN(S1.c, S1.vec[v].buf, d.size,
                                                     new_size - d.size)
              IN IF c2.threw THEN [S1 EXCEPT !.c = c2]
                 ELSE [vec |-> [S1.vec EXCEPT ![v].size = new_size], c |-> c2]
    ELSE IF new_size < d.size
    THEN [vec |-> [S.vec EXCEPT ![v].size = new_size],
          c |-> DestroyN(S.c, d.buf, new_size, d.size - new_size)]
    ELSE S

\* A growth policy that adds one slot instead of doubling.
NewCapacity_Linear(size) == size + 1

\* size_ == 0 ? 1 : size_ * 2
NewCapacity(size) == IF size = 0 THEN 1 ELSE size * 2

\* The growth path shared, line for line, by PushBack(const T&), PushBack(T&&)
\* and EmplaceBack: new block, relocate, construct the new element at the
\* end (new_elem), destroy the originals, swap the blocks in, ++size_.
GrowAndAppend(S, v, arg) ==
    LET d == S.vec[v]
        new_capacity == NewCapacity(d.size)
        nb == Allocate(S.c.heap, new_capacity)
        c1 == RawMemoryNew(S.c, nb, new_capacity)
        c2 == Relocate(c1, d.buf, 0, d.size, nb, 0)
    IN IF c2.threw THEN [vec |-> S.vec, c |-> Deallocate(c2, nb), ret |-> NoRet]
       ELSE LET c3 == ConstructFromArg(c2, nb, d.size, arg, d.buf) IN
            IF c3.threw THEN [vec |-> S.vec, c |-> Deallocate(c3, nb), ret |-> NoRet]
            ELSE LET c4 == DestroyN(c3, d.buf, 0, d.size)
                 IN [vec |-> [S.vec EXCEPT ![v] = [@ EXCEPT !.buf = nb, !.cap = new_capacity,
                                                            !.size = d.size + 1]],
                     c |-> Deallocate(c4, d.buf),
                     ret |-> <<nb, d.size>>]

\* The other branch: construct at the next free slot (new_elem), ++size_.
AppendInPlace(S, v, arg) ==
    LET d == S.vec[v]
        c1 == ConstructFromArg(S.c, d.buf, d.size, arg, d.buf)
    IN IF c1.threw THEN [vec |-> S.vec, c |-> c1, ret |-> NoRet]
       ELSE [vec |-> [S.vec EXCEPT ![v].size = d.size + 1], c |-> c1,
             ret |-> <<d.buf, d.size>>]

\* Vector::PushBack(const T&) (arg.how = "copy") and Vector::PushBack(T&&)
\* (arg.how = "move").
PushBack(S, v, arg) ==
    IF S.vec[v].size = S.vec[v].cap THEN GrowAndAppend(S, v, arg) ELSE AppendInPlace(S, v, arg)

\* Vector::EmplaceBack; ret is the address of the new element (*new_elem).
EmplaceBack(S, v, arg) ==
    IF S.vec[v].size = S.vec[v].cap THEN GrowAndAppend(S, v, arg) ELSE AppendInPlace(S, v, arg)

\* Vector::PopBack (precondition size_ > 0).
PopBack(S, v) ==
    LET d == S.vec[v]
    IN [vec |-> [S.vec EXCEPT ![v].size = d.size - 1], c |-> DestroyAt(S.c, d.buf, d.size - 1)]


\* std::move_backward(b + first, b + last, b + d_last): move-assigns the
\* range to the one ending at d_last, last element first; stops at a throw.
RECURSIVE MoveBackward(_, _, _, _, _)
MoveBackward(c, b, first, lst, d_last) ==
    IF first = lst THEN c
    ELSE LET c1 == MoveAssignElem(c, b, lst - 1, b, d_last - 1)
         IN IF c1.threw THEN c1 ELSE MoveBackward(c1, b, first, lst - 1, d_last - 1)

\* std::move(b + first, b + last, b + d_first): move-assigns the range to the
\* one starting at d_first, first element first; stops at a throw.
RECURSIVE MoveForward(_, _, _, _, _)
MoveForward(c, b, first, lst, d_first) ==
    IF first = lst THEN c
    ELSE LET c1 == MoveAssignElem(c, b, first, b, d_first)
         IN IF c1.threw THEN c1 ELSE MoveForward(c1, b, first + 1, lst, d_first + 1)

\* data_[index] = std::move(tmp_copy): move assignment from the temporary.
AssignFromTemp(c, b, i, val) ==
    LET may == ~NothrowMoveConstructible(T) IN
    IF Throws(c, may) THEN Thrown(c)
    ELSE [c EXCEPT !.heap[b][i + 1] = Assigned(c, b, i, val),
                   !.fuse = Tick(c, may),
                   !.na = @ + 1,
                   !.faults = @ \cup AssignFault(c, b, i)]

\* Vector::Emplace, the branch size_ == Capacity() with pos != end().
EmplaceGrow(S, v, index, arg) ==
    LET d == S.vec[v]
        new_capacity == NewCapacity(d.size)
        nb == Allocate(S.c.heap, new_capacity)
        c1 == RawMemoryNew(S.c, nb, new_capacity)
        c2 == Relocate(c1, d.buf, 0, index, nb, 0)
    IN IF c2.threw THEN [vec |-> S.vec, c |-> Deallocate(c2, nb), ret |-> NoRet]
       ELSE LET c3 == ConstructFromArg(c2, nb, index, arg, d.buf) IN
            IF c3.threw THEN [vec |-> S.vec, c |-> Deallocate(c3, nb), ret |-> NoRet]
            ELSE LET c4 == Relocate(c3, d.buf, index, d.size - index, nb, index + 1) IN
                 IF c4.threw THEN [vec |-> S.vec, c |-> Deallocate(c4, nb), ret |-> NoRet]
                 ELSE LET c5 == DestroyN(c4, d.buf, 0, d.size)
                      IN [vec |-> [S.vec EXCEPT ![v] = [@ EXCEPT !.buf = nb,
                                                                 !.cap = new_capacity,
                                                                 !.size = d.size + 1]],
                          c |-> Deallocate(c5, d.buf),
                          ret |-> <<nb, index>>]

\* Vector::Emplace, the branch size_ < Capacity() with pos != end().
EmplaceInPlace(S, v, index, arg) ==
    LET d == S.vec[v]
        tmp_copy == ArgVal(S.c, d.buf, arg)
        c1 == IF Throws(S.c, ArgMayThrow(arg)) THEN Thrown(S.c)
              ELSE [S.c EXCEPT !.fuse = Tick(S.c, ArgMayThrow(arg)),
                               !.nc = @ + 1,
                               !.faults = @ \cup ArgFault(S.c, d.buf, arg)]
    IN IF c1.threw THEN [vec |-> S.vec, c |-> c1, ret |-> NoRet]
       ELSE LET c2 == IF index < d.size
                      THEN MoveConstruct(c1, d.buf, d.size - 1, d.buf, d.size)
                      ELSE c1
                c3 == IF c2.threw \/ ~(index < d.size) THEN c2
                      ELSE MoveBackward(c2, d.buf, index, d.size - 1, d.size)
                c4 == IF c3.threw THEN c3 ELSE AssignFromTemp(c3, d.buf, index, tmp_copy)
            IN IF c4.threw THEN [vec |-> S.vec, c |-> c4, ret |-> NoRet]
               ELSE [vec |-> [S.vec EXCEPT ![v].size = d.size + 1], c |-> c4,
                     ret |-> <<d.buf, index>>]

\* Vector::Emplace; Vector::Insert forwards to it.  pos is begin() + index.
Emplace(S, v, index, arg) ==
    LET d == S.vec[v] IN
    IF index = d.size
    THEN LET S1 == EmplaceBack(S, v, arg)
         IN [vec |-> S1.vec, c |-> S1.c,
             ret |-> IF S1.c.threw THEN NoRet ELSE <<S1.vec[v].buf, index>>]
    ELSE IF d.size = d.cap THEN EmplaceGrow(S, v, index, arg)
    ELSE EmplaceInPlace(S, v, index, arg)

\* Vector::Erase (precondition: pos = begin() + index is dereferenceable).
Erase(S, v, index) ==
    LET d == S.vec[v]
        c1 == DestroyAt(S.c, d.buf, index)
        c2 == IF index < d.size - 1 THEN MoveForward(c1, d.buf, index + 1, d.size, index)
              ELSE c1
    IN IF c2.threw THEN [vec |-> S.vec, c |-> c2, ret |-> NoRet]
       ELSE [vec |-> [S.vec EXCEPT ![v].size = d.size - 1], c |-> c2,
             ret |-> <<d.buf, index>>]

\* Vector::Swap, over RawMemory::Swap.
Swap(S, v, w) ==
    [S EXCEPT !.vec = [S.vec EXCEPT ![v] = [@ EXCEPT !.buf = S.vec[w].buf, !.cap = S.vec[w].cap,
                                                      !.size = S.vec[w].size],
                                    ![w] = [@ EXCEPT !.buf = S.vec[v].buf, !.cap = S.vec[v].cap,
                                                      !.size = S.vec[v].size]]]

\* Vector::operator=(Vector&&).
MoveAssign(S, v, w) ==
    IF v # w
    THEN [S EXCEPT !.vec = [S.vec EXCEPT ![v] = [@ EXCEPT !.buf = S.vec[w].buf,
                                                           !.cap = S.vec[w].cap,
                                                           !.size = S.vec[w].size],
                                         ![w] = [@ EXCEPT !.buf = S.vec[v].buf,
                                                           !.cap = S.vec[v].cap,
                                                           !.size = 0]]]
    ELSE S

\* Vector::~Vector, then ~RawMemory of data_: object d goes away.
DestroyVector(c, d) == Deallocate(DestroyN(c, d.buf, 0, d.size), d.buf)

\* Vector(const Vector& other): the new object, or nothing when a copy throws
\* (the member data_ is then released).
CopyConstructVector(c, other) ==
    LET nb == Allocate(c.heap, other.size)
        c1 == RawMemoryNew(c, nb, other.size)
        c2 == UninitializedCopyN(c1, other.buf, 0, other.size, nb, 0)
    IN IF c2.threw THEN [c |-> Deallocate(c2, nb), d |-> NoVec]
       ELSE [c |-> c2, d |-> [alive |-> TRUE, buf |-> nb, cap |-> other.size,
                              size |-> other.size]]

\* The loop of operator=(const Vector&): data_[i] = rhs.data_[i] while
\* i < size_ && i < rhs.size_; yields the running state and the final i.
RECURSIVE AssignPrefix(_, _, _, _)
AssignPrefix(c, d, r, i) ==
    IF ~(i < d.size /\ i < r.size) THEN [c |-> c, i |-> i]
    ELSE LET c1 == CopyAssignElem(c, r.buf, i, d.buf, i)
         IN IF c1.threw THEN [c |-> c1, i |-> i] ELSE AssignPrefix(c1, d, r, i + 1)

\* Copy assignment by copy-and-swap alone, whatever the capacity.
CopyAssign_CopyAndSwap(S, v, w) ==
    LET tmp == CopyConstructVector(S.c, S.vec[w]) IN
    IF v = w THEN S
    ELSE IF tmp.c.threw THEN [S EXCEPT !.c = tmp.c]
    ELSE [vec |-> [S.vec EXCEPT ![v] = tmp.d], c |-> DestroyVector(tmp.c, S.vec[v])]

\* Copy assignment without the test this != &rhs.
CopyAssign_NoIdentityTest(S, v, w) ==
    LET d == S.vec[v]
        r == S.vec[w]
        p == AssignPrefix(S.c, d, r, 0)
        c2 == IF p.i < r.size
              THEN UninitializedCopyN(p.c, r.buf, p.i, r.size - p.i, d.buf, p.i)
              ELSE DestroyN(p.c, d.buf, p.i, d.size - p.i)
    IN IF v # w THEN CopyAssign_CopyAndSwap(S, v, w)
       ELSE IF p.c.threw THEN [S EXCEPT !.c = p.c]
       ELSE [vec |-> [S.vec EXCEPT ![v].size = r.size], c |-> c2]

\* Vector::operator=(const Vector&).
CopyAssign(S, v, w) ==
    LET d == S.vec[v]
        r == S.vec[w]
    IN IF v = w THEN S
       ELSE IF r.size > d.cap
       THEN LET tmp == CopyConstructVector(S.c, r) IN
            IF tmp.c.threw THEN [S EXCEPT !.c = tmp.c]
            ELSE [vec |-> [S.vec EXCEPT ![v] = tmp.d],
                  c |-> DestroyVector(tmp.c, d)]
       ELSE LET p == AssignPrefix(S.c, d, r, 0) IN
            IF p.c.threw THEN [S EXCEPT !.c = p.c]
            ELSE LET c2 == IF p.i < r.size
                           THEN UninitializedCopyN(p.c, r.buf, p.i, r.size - p.i, d.buf, p.i)
                           ELSE DestroyN(p.c, d.buf, p.i, d.size - p.i)
                 IN IF c2.threw THEN [S EXCEPT !.c = c2]
                    ELSE [vec |-> [S.vec EXCEPT ![v].size = r.size], c |-> c2]

\* ~Vector() on vector v at the end of its lifetime.
Destroy(S, v) ==
    [vec |-> [S.vec EXCEPT ![v] = NoVec], c |-> DestroyVector(S.c, S.vec[v])]

\* Vector() = default, into the storage of v.
Construct(S, v) == [S EXCEPT !.vec[v] = EmptyVec]

\* Vector(size_t size), into the storage of v.
ConstructSized(S, v, size) ==
    LET nb == Allocate(S.c.heap, size)
        c1 == RawMemoryNew(S.c, nb, size)
        c2 == UninitializedValueConstructN(c1, nb, 0, size)
    IN IF c2.threw THEN [S EXCEPT !.c = Deallocate(c2, nb)]
       ELSE [vec |-> [S.vec EXCEPT ![v] = [alive |-> TRUE, buf |-> nb, cap |-> size,
                                           size |-> size]],
             c |-> c2]

\* Vector(const Vector& other), into the storage of v, other being w.
ConstructCopy(S, v, w) ==
    LET r == CopyConstructVector(S.c, S.vec[w])
    IN [vec |-> [S.vec EXCEPT ![v] = r.d], c |-> r.c]

\* A move constructor that takes the block and copies size_ without zeroing
\* the source's.
ConstructMove_KeepSize(S, v, w) ==
    [S EXCEPT !.vec = [S.vec EXCEPT ![v] = [alive |-> TRUE, buf |-> S.vec[w].buf,
                                            cap |-> S.vec[w].cap, size |-> S.vec[w].size],
                                    ![w] = [@ EXCEPT !.buf = Null, !.cap = 0]]]

\* Vector(Vector&& other), over RawMemory(RawMemory&&), into the storage of v.
ConstructMove(S, v, w) ==
    [S EXCEPT !.vec = [S.vec EXCEPT ![v] = [alive |-> TRUE, buf |-> S.vec[w].buf,
                                            cap |-> S.vec[w].cap, size |-> S.vec[w].size],
                                    ![w] = [@ EXCEPT !.buf = Null, !.cap = 0, !.size = 0]]]

\* ------------------------------------------------------------ the program
\* The arguments a caller can pass for a new element of vector v.
CopyArgs(v) ==
    {[how |-> "copy", src |-> "value", val |-> x, idx |-> 0] : x \in Values}
    \cup {[how |-> "copy", src |-> "elem", val |-> Default, idx |-> j] :
              j \in 0..(vec[v].size - 1)}
MoveArgs == {[how |-> "move", src |-> "value", val |-> x, idx |-> 0] : x \in Values}
Args(v) == (IF CopyConstructible(T) THEN CopyArgs(v) ELSE {}) \cup MoveArgs
NoArg == [how |-> "none", src |-> "value", val |-> Default, idx |-> 0]

\* A call: the operation, the vector v it is called on, the other vector w,
\* the index of pos, the count n, the element argument, the countdown f to
\* the element operation that throws (0: none) and the outcome ub of an
\* assignment to a slot without an element (TRUE: an unspecified value).
Call(op, v, w, index, n, arg, f, ub) ==
    [op |-> op, v |-> v, w |-> w, index |-> index, n |-> n, arg |-> arg, f |-> f, ub |-> ub]

Live2(v) == {i \in 1..vec[v].size : Live(heap[vec[v].buf][i])}
\* The outcomes to consider for such assignments: one when every element slot
\* of v holds an element.
Outcomes(v) == IF Cardinality(Live2(v)) < vec[v].size THEN BOOLEAN ELSE {FALSE}

AliveVecs == {v \in Vecs : vec[v].alive}
\* The vector the element-wise operations are called on; the other vector is
\* the operand of the two-vector operations and gets its elements from them.
Subjects == AliveVecs \cap {"a"}
DeadVecs == Vecs \ AliveVecs
Fresh(d) == d.alive /\ d.size = 0 /\ d.cap = 0
\* The vectors a new element fits into within the bound on capacities.
Growable == {v \in Subjects : vec[v].size < vec[v].cap \/ NewCapacity(vec[v].size) <= MaxCap}

\* The countdowns worth passing to a call that performs at most m element
\* operations: a longer countdown never reaches 1 and is the call with f = 0.
Fuses(m) == 0..(IF m < MaxFuse THEN m ELSE MaxFuse)

ReserveCalls ==
    UNION {{Call("Reserve", v, v, 0, n, NoArg, f, FALSE) :
                f \in Fuses(IF n > vec[v].cap THEN vec[v].size ELSE 0)} :
               v \in AliveVecs, n \in 0..MaxCap}
ResizeCalls ==
    UNION {{Call("Resize", v, v, 0, n, NoArg, f, FALSE) :
                f \in Fuses(IF n > vec[v].size THEN n ELSE 0)} :
               v \in AliveVecs, n \in 0..MaxCap}
PushBackCopyCalls ==
    IF CopyConstructible(T)
    THEN UNION {{Call("PushBack", v, v, 0, 0, arg, f, FALSE) : arg \in CopyArgs(v), f \in 0..MaxFuse} :
                    v \in Growable}
    ELSE {}
PushBackMoveCalls ==
    {Call("PushBack", v, v, 0, 0, arg, f, FALSE) : v \in Growable, arg \in MoveArgs, f \in 0..MaxFuse}
PushBackCalls == PushBackCopyCalls \cup PushBackMoveCalls
EmplaceBackCalls ==
    UNION {{Call("EmplaceBack", v, v, 0, 0, arg, f, FALSE) : arg \in Args(v), f \in 0..MaxFuse} :
               v \in Growable}
PopBackCalls ==
    {Call("PopBack", v, v, 0, 0, NoArg, 0, FALSE) : v \in {x \in Subjects : vec[x].size > 0}}
EmplaceCalls ==
    UNION {{Call("Emplace", v, v, index, 0, arg, f, ub) :
                index \in 0..vec[v].size, arg \in Args(v), f \in 0..MaxFuse, ub \in Outcomes(v)} :
               v \in Growable}
EraseCalls ==
    UNION {UNION {{Call("Erase", v, v, index, 0, NoArg, f, ub) :
                       f \in Fuses(vec[v].size - 1 - index), ub \in BOOLEAN} :
                      index \in 0..(vec[v].size - 1)} :
               v \in Subjects}
SwapCalls == {Call("Swap", v, w, 0, 0, NoArg, 0, FALSE) : v \in AliveVecs, w \in AliveVecs}
MoveAssignCalls ==
    {Call("MoveAssign", v, w, 0, 0, NoArg, 0, FALSE) : v \in AliveVecs, w \in AliveVecs}
CopyAssignCalls ==
    IF CopyConstructible(T)
    THEN UNION {{Call("CopyAssign", v, w, 0, 0, NoArg, f, ub) :
                     f \in Fuses(IF v = w THEN 0 ELSE vec[w].size), ub \in Outcomes(v)} :
                    v \in AliveVecs, w \in AliveVecs}
    ELSE {}
DestroyCalls == {Call("Destroy", v, v, 0, 0, NoArg, 0, FALSE) : v \in AliveVecs}
ConstructCalls == {Call("Construct", v, v, 0, 0, NoArg, 0, FALSE) : v \in DeadVecs}
ConstructSizedCalls ==
    UNION {{Call("ConstructSized", v, v, 0, n, NoArg, f, FALSE) : f \in Fuses(n)} :
               v \in DeadVecs, n \in 0..MaxCap}
ConstructCopyCalls ==
    IF CopyConstructible(T)
    THEN UNION {{Call("ConstructCopy", v, w, 0, 0, NoArg, f, FALSE) : f \in Fuses(vec[w].size)} :
                    v \in DeadVecs, w \in AliveVecs}
    ELSE {}
ConstructMoveCalls ==
    {Call("ConstructMove", v, w, 0, 0, NoArg, 0, FALSE) : v \in DeadVecs, w \in AliveVecs}

\* The state a call starts from, and the state it runs to.
Start(k) == [vec |-> vec, c |-> Ctx(heap, k.f, k.ub)]
Run(k) ==
    CASE k.op = "Reserve" -> Reserve(Start(k), k.v, k.n)
      [] k.op = "Resize" -> Resize(Start(k), k.v, k.n)
      [] k.op = "PushBack" -> PushBack(Start(k), k.v, k.arg)
      [] k.op = "EmplaceBack" -> EmplaceBack(Start(k), k.v, k.arg)
      [] k.op = "PopBack" -> PopBack(Start(k), k.v)
      [] k.op = "Emplace" -> Emplace(Start(k), k.v, k.index, k.arg)
      [] k.op = "Erase" -> Erase(Start(k), k.v, k.index)
      [] k.op = "Swap" -> Swap(Start(k), k.v, k.w)
      [] k.op = "MoveAssign" -> MoveAssign(Start(k), k.v, k.w)
      [] k.op = "CopyAssign" -> CopyAssign(Start(k), k.v, k.w)
      [] k.op = "Destroy" -> Destroy(Start(k), k.v)
      [] k.op = "Construct" -> Construct(Start(k), k.v)
      [] k.op = "ConstructSized" -> ConstructSized(Start(k), k.v, k.n)
      [] k.op = "ConstructCopy" -> ConstructCopy(Start(k), k.v, k.w)
      [] k.op = "ConstructMove" -> ConstructMove(Start(k), k.v, k.w)

\* The value the caller passes, as it is when the call starts.
Passed(k) == ArgVal(Start(k).c, vec[k.v].buf, k.arg)

\* The slots allocated to the vectors.
TotalCap(vc) == vc["a"].cap + vc["b"].cap

\* Addresses are arbitrary: between calls the blocks are renamed so that the
\* block of vector v, if it has one, is block Home(v).  Inside a call the
\* addresses are those the call sees.
Home(v) == IF v = "a" THEN 1 ELSE 2
CanonVec(vc) == [v \in Vecs |-> [vc[v] EXCEPT !.buf = IF @ = Null THEN Null ELSE Home(v)]]
CanonHeap(vc, h) ==
    [b \in BlockIds |-> IF b = 1 /\ vc["a"].buf # Null THEN h[vc["a"].buf]
                        ELSE IF b = 2 /\ vc["b"].buf # Null THEN h[vc["b"].buf]
                        ELSE <<>>]

\* The values pushed so far into a vector that has seen nothing but
\* successful PushBack calls since it was empty with no block.
NoLog == [ok |-> FALSE, vals |-> <<>>]
EmptyLog == [ok |-> TRUE, vals |-> <<>>]
LogAfter(d) == IF Fresh(d) THEN EmptyLog ELSE NoLog
Touched(k) == IF k.op \in {"CopyAssign", "ConstructCopy"} THEN {k.v} ELSE {k.v, k.w}
NextLog(k, S) ==
    IF k.op = "PushBack"
    THEN [pushed EXCEPT ![k.v] = IF @.ok /\ ~S.c.threw
                                 THEN [ok |-> TRUE, vals |-> Append(@.vals, Passed(k))]
                                 ELSE NoLog]
    ELSE [x \in Vecs |-> IF x \in Touched(k) THEN LogAfter(S.vec[x]) ELSE pushed[x]]

\* The end of call k, which ran to S: the memory the vectors hold stays
\* within MaxHeap.
Done(k, S) ==
    /\ TotalCap(S.vec) <= MaxHeap
    /\ vec' = CanonVec(S.vec)
    /\ heap' = CanonHeap(S.vec, S.c.heap)
    /\ pushed' = NextLog(k, S)
    /\ T' = T

Init ==
    /\ T \in Types
    /\ vec = [v \in Vecs |-> EmptyVec]
    /\ heap = [b \in BlockIds |-> <<>>]
    /\ pushed = [v \in Vecs |-> EmptyLog]

DoReserve == \E k \in ReserveCalls : \E S \in {Reserve(Start(k), k.v, k.n)} : Done(k, S)
DoResize == \E k \in ResizeCalls : \E S \in {Resize(Start(k), k.v, k.n)} : Done(k, S)
DoPushBackCopy == \E k \in PushBackCopyCalls : \E S \in {PushBack(Start(k), k.v, k.arg)} : Done(k, S)
DoPushBackMove == \E k \in PushBackMoveCalls : \E S \in {PushBack(Start(k), k.v, k.arg)} : Done(k, S)
DoEmplaceBack == \E k \in EmplaceBackCalls : \E S \in {EmplaceBack(Start(k), k.v, k.arg)} : Done(k, S)
DoPopBack == \E k \in PopBackCalls : \E S \in {PopBack(Start(k), k.v)} : Done(k, S)
DoEmplace == \E k \in EmplaceCalls : \E S \in {Emplace(Start(k), k.v, k.index, k.arg)} : Done(k, S)
DoErase == \E k \in EraseCalls : \E S \in {Erase(Start(k), k.v, k.index)} : Done(k, S)
DoSwap == \E k \in SwapCalls : \E S \in {Swap(Start(k), k.v, k.w)} : Done(k, S)
DoMoveAssign == \E k \in MoveAssignCalls : \E S \in {MoveAssign(Start(k), k.v, k.w)} : Done(k, S)
DoCopyAssign == \E k \in CopyAssignCalls : \E S \in {CopyAssign(Start(k), k.v, k.w)} : Done(k, S)
DoDestroy == \E k \in DestroyCalls : \E S \in {Destroy(Start(k), k.v)} : Done(k, S)
DoConstruct == \E k \in ConstructCalls : \E S \in {Construct(Start(k), k.v)} : Done(k, S)
DoConstructSized == \E k \in ConstructSizedCalls : \E S \in {ConstructSized(Start(k), k.v, k.n)} : Done(k, S)
DoConstructCopy == \E k \in ConstructCopyCalls : \E S \in {ConstructCopy(Start(k), k.v, k.w)} : Done(k, S)
DoConstructMove == \E k \in ConstructMoveCalls : \E S \in {ConstructMove(Start(k), k.v, k.w)} : Done(k, S)

Next ==
    \/ DoReserve
    \/ DoResize
    \/ DoPushBackCopy
    \/ DoPushBackMove
    \/ DoEmplaceBack
    \/ DoPopBack
    \/ DoEmplace
    \/ DoErase
    \/ DoSwap
    \/ DoMoveAssign
    \/ DoCopyAssign
    \/ DoDestroy
    \/ DoConstruct
    \/ DoConstructSized
    \/ DoConstructCopy
    \/ DoConstructMove

Spec == Init /\ [][Next]_vars

TypeOK ==
    /\ T \in Types
    /\ \A v \in Vecs : vec[v].buf \in BlockIds \cup {Null} /\ vec[v].cap \in 0..MaxCap
                       /\ vec[v].size \in 0..vec[v].cap

\* ================================================================ claims
\* The elements of a vector, operator[](0) .. operator[](size - 1).
Elems(h, d) == [i \in 1..d.size |-> h[d.buf][i]]
\* The slots of its block.
Slots(h, d) == IF d.buf = Null THEN <<>> ELSE h[d.buf]
\* What a vector looks like to its user.
View(h, d) == [size |-> d.size, cap |-> d.cap, elems |-> Elems(h, d)]

AllCalls ==
    ReserveCalls \cup ResizeCalls \cup PushBackCalls \cup EmplaceBackCalls \cup PopBackCalls
    \cup EmplaceCalls \cup EraseCalls \cup SwapCalls \cup MoveAssignCalls \cup CopyAssignCalls
    \cup DestroyCalls \cup ConstructCalls \cup ConstructSizedCalls \cup ConstructCopyCalls
    \cup ConstructMoveCalls

\* C1: after any sequence of public operations, the slots [0, size) of every
\* vector's block each hold a constructed element and the slots
\* [size, capacity) hold none.
C1_ConstructedExactlyBelowSize ==
    \A v \in AliveVecs :
        \A i \in 1..vec[v].cap : Live(heap[vec[v].buf][i]) <=> i <= vec[v].size

\* C2: no operation destroys, assigns to, moves from or reads a slot without a
\* constructed element, and none constructs into a slot that holds one.
LifetimeFaults == {"destroy_raw", "assign_raw", "use_raw", "construct_over_live"}
C2_NoLifetimeFault ==
    \A k \in AllCalls : \A S \in {Run(k)} : S.c.faults \cap LifetimeFaults = {}

\* The calls that take a reallocating growth path, and those among them that
\* C3 names (Reserve, PushBack, Insert).
Full(v) == vec[v].size = vec[v].cap
Reallocating ==
    {k \in ReserveCalls : k.n > vec[k.v].cap}
    \cup {k \in PushBackCalls \cup EmplaceBackCalls \cup EmplaceCalls : Full(k.v)}
ReallocatingC3 == {k \in Reallocating : k.op \in {"Reserve", "PushBack", "Emplace"}}

\* C3: for an element type with a copy constructor that may throw, a
\* reallocating Reserve, PushBack or Insert that throws leaves size(),
\* capacity() and every element as they were.
C3_StrongGuarantee ==
    CopyConstructible(T) =>
        \A k \in ReallocatingC3 : \A S \in {Run(k)} :
            S.c.threw => View(S.c.heap, S.vec[k.v]) = View(heap, vec[k.v])

\* C4: when an element constructor throws during a reallocating operation, the
\* elements already constructed in the new block are destroyed before the
\* block is released.
C4_NewBlockEmptiedBeforeRelease ==
    \A k \in Reallocating : \A S \in {Run(k)} :
        S.c.threw => "dealloc_live" \notin S.c.faults

\* C5: move assignment from a distinct source destroys every element the
\* destination held, once each, gives the destination the source's elements
\* in order and leaves the source with size 0.
C5_MoveAssign ==
    \A k \in MoveAssignCalls : \A S \in {Run(k)} :
        k.v # k.w =>
            /\ S.c.nd = vec[k.v].size
            /\ \A i \in 1..Len(Slots(S.c.heap, S.vec[k.w])) :
                   ~Live(Slots(S.c.heap, S.vec[k.w])[i])
            /\ Elems(S.c.heap, S.vec[k.v]) = Elems(heap, vec[k.w])
            /\ S.vec[k.w].size = 0

\* C6: after n PushBack calls on an initially empty vector, size() = n,
\* capacity() >= n and operator[](i) is the i-th pushed value.
C6_PushBackSequence ==
    \A v \in AliveVecs :
        pushed[v].ok =>
            /\ vec[v].size = Len(pushed[v].vals)
            /\ vec[v].cap >= Len(pushed[v].vals)
            /\ Elems(heap, vec[v]) = pushed[v].vals

\* C7: Insert/Emplace of x at index i into a vector of size n gives size
\* n + 1, x at i, [0, i) unchanged, the former [i, n) at [i + 1, n + 1), and
\* returns the address of slot i of the vector's current block.
Inserted(old, i, x) ==
    [j \in 1..(Len(old) + 1) |-> IF j <= i THEN old[j] ELSE IF j = i + 1 THEN x ELSE old[j - 1]]
C7_Insert ==
    \A k \in EmplaceCalls : \A S \in {Run(k)} :
        ~S.c.threw =>
            /\ S.vec[k.v].size = vec[k.v].size + 1
            /\ Elems(S.c.heap, S.vec[k.v]) = Inserted(Elems(heap, vec[k.v]), k.index, Passed(k))
            /\ S.ret = <<S.vec[k.v].buf, k.index>>

\* C8: Erase at index i of a vector of size n gives size n - 1, [0, i)
\* unchanged, the former [i + 1, n) at [i, n - 1), the same capacity, and
\* returns the address of slot i.
Erased(old, i) == [j \in 1..(Len(old) - 1) |-> IF j <= i THEN old[j] ELSE old[j + 1]]
C8_Erase ==
    \A k \in EraseCalls : \A S \in {Run(k)} :
        ~S.c.threw =>
            /\ S.vec[k.v].size = vec[k.v].size - 1
            /\ Elems(S.c.heap, S.vec[k.v]) = Erased(Elems(heap, vec[k.v]), k.index)
            /\ S.vec[k.v].cap = vec[k.v].cap
            /\ S.ret = <<S.vec[k.v].buf, k.index>>

\* C9: PushBack, EmplaceBack and Emplace/Insert change the capacity only when
\* called with size = capacity, and then to exactly max(1, 2 * size); so n
\* PushBack calls on an empty vector leave the capacity at the n-th of
\* 0, 1, 2, 4, 4, 8, ..., whatever the element type.
RECURSIVE DoubledTo(_, _)
DoubledTo(c, n) == IF c >= n THEN c ELSE DoubledTo(IF c = 0 THEN 1 ELSE 2 * c, n)
C9_GrowthPolicy ==
    /\ \A k \in PushBackCalls \cup EmplaceBackCalls \cup EmplaceCalls : \A S \in {Run(k)} :
           /\ S.vec[k.v].cap # vec[k.v].cap => Full(k.v)
           /\ Full(k.v) /\ ~S.c.threw =>
                  S.vec[k.v].cap = IF 2 * vec[k.v].size > 1 THEN 2 * vec[k.v].size ELSE 1
    /\ \A v \in AliveVecs : pushed[v].ok => vec[v].cap = DoubledTo(0, Len(pushed[v].vals))
C9_Witness ==
    \E v \in AliveVecs :
        /\ pushed[v].ok /\ Len(pushed[v].vals) = 3 /\ vec[v].cap = 4
        /\ ~RelocatesByMove

\* C10: Reserve, Resize, PushBack, EmplaceBack, PopBack, Emplace/Insert, Erase
\* and copy assignment never lower the capacity of a vector, whether or not
\* they throw.
KeepingCalls ==
    ReserveCalls \cup ResizeCalls \cup PushBackCalls \cup EmplaceBackCalls \cup PopBackCalls
    \cup EmplaceCalls \cup EraseCalls \cup CopyAssignCalls
C10_CapacityNeverLowered ==
    \A k \in KeepingCalls : \A S \in {Run(k)} :
        \A v \in Vecs : S.vec[v].cap >= vec[v].cap
\* A copy assignment of a shorter vector into one with more capacity, and a
\* call that threw, both with the capacity kept; and a move assignment that
\* lowers the capacity.
C10_Witness ==
    /\ \E k \in CopyAssignCalls :
           /\ k.v # k.w /\ vec[k.w].size < vec[k.v].size /\ vec[k.w].size < vec[k.v].cap
           /\ ~Run(k).c.threw /\ Run(k).vec[k.v].cap = vec[k.v].cap
    /\ \E k \in KeepingCalls : Run(k).c.threw /\ vec[k.v].cap > 0
    /\ \E k \in MoveAssignCalls : Run(k).vec[k.v].cap < vec[k.v].cap

\* C11: copy assignment from a distinct source that returns gives the
\* destination the source's size and elements in order and leaves the source
\* as it was; when the source's size is within the destination's capacity the
\* capacity is kept and exactly the old trailing elements [source.size, old
\* size) are destroyed, once each.
Excess(n, m) == IF m < n THEN n - m ELSE 0
C11_CopyAssign ==
    \A k \in CopyAssignCalls : \A S \in {Run(k)} :
        k.v # k.w /\ ~S.c.threw =>
            /\ S.vec[k.v].size = vec[k.w].size
            /\ Elems(S.c.heap, S.vec[k.v]) = Elems(heap, vec[k.w])
            /\ View(S.c.heap, S.vec[k.w]) = View(heap, vec[k.w])
            /\ vec[k.w].size <= vec[k.v].cap =>
                   /\ S.vec[k.v].cap = vec[k.v].cap
                   /\ S.c.nd = Excess(vec[k.v].size, vec[k.w].size)
                   /\ "destroy_raw" \notin S.c.faults
                   /\ \A i \in (vec[k.w].size + 1)..vec[k.v].size :
                          ~Live(S.c.heap[S.vec[k.v].buf][i])

\* C12: move construction leaves the source with size 0 and capacity 0, gives
\* the new vector the source's elements in order and its capacity, and
\* constructs, copies and destroys no element.
C12_MoveConstruct ==
    \A k \in ConstructMoveCalls : \A S \in {Run(k)} :
        /\ S.vec[k.w].size = 0 /\ S.vec[k.w].cap = 0 /\ S.vec[k.w].buf = Null
        /\ S.vec[k.v].alive
        /\ View(S.c.heap, S.vec[k.v]) = View(heap, vec[k.w])
        /\ S.c.heap = heap /\ S.c.nc = 0 /\ S.c.na = 0 /\ S.c.nd = 0
        /\ S.c.faults = {} /\ ~S.c.threw
\* A move construction from a vector with two different elements and a spare
\* slot.
C12_Witness ==
    \E k \in ConstructMoveCalls :
        /\ vec[k.w].size = 2 /\ vec[k.w].cap > 2
        /\ Live(heap[vec[k.w].buf][1]) /\ Live(heap[vec[k.w].buf][2])
        /\ heap[vec[k.w].buf][1] # heap[vec[k.w].buf][2]
        /\ Run(k).vec[k.v].size = 2 /\ Run(k).vec[k.w].size = 0

\* C13: Resize(m) on a vector of size n that returns: for m > n the size is
\* m, the elements [0, n) are unchanged and [n, m) are value-constructed; for
\* m < n exactly the elements [m, n) are destroyed, once each, the prefix
\* [0, m) and the capacity are unchanged; for m = n nothing changes.
Prefix(seq, n) == [i \in 1..n |-> seq[i]]
C13_Resize ==
    \A k \in ResizeCalls : \A S \in {Run(k)} :
        ~S.c.threw =>
            /\ S.vec[k.v].size = k.n
            /\ k.n > vec[k.v].size =>
                   /\ Prefix(Elems(S.c.heap, S.vec[k.v]), vec[k.v].size) = Elems(heap, vec[k.v])
                   /\ \A i \in (vec[k.v].size + 1)..k.n :
                          S.c.heap[S.vec[k.v].buf][i] = Default
            /\ k.n < vec[k.v].size =>
                   /\ S.c.nd = vec[k.v].size - k.n
                   /\ "destroy_raw" \notin S.c.faults
                   /\ \A i \in (k.n + 1)..vec[k.v].size : ~Live(S.c.heap[S.vec[k.v].buf][i])
                   /\ Elems(S.c.heap, S.vec[k.v]) = Prefix(Elems(heap, vec[k.v]), k.n)
                   /\ S.vec[k.v].cap = vec[k.v].cap /\ S.vec[k.v].buf = vec[k.v].buf
            /\ k.n = vec[k.v].size => S.vec = vec /\ S.c.heap = heap /\ S.c.nd = 0

\* C14: Reserve(c) with c <= capacity changes nothing: no allocation, the
\* same block, size and elements; Reserve(c) with c > capacity that returns
\* makes the capacity exactly c and leaves the size and the elements, values
\* and order, unchanged.
C14_Reserve ==
    \A k \in ReserveCalls : \A S \in {Run(k)} :
        /\ k.n <= vec[k.v].cap => S.vec = vec /\ S.c.heap = heap /\ S.c.nd = 0 /\ ~S.c.threw
        /\ k.n > vec[k.v].cap /\ ~S.c.threw =>
               /\ S.vec[k.v].cap = k.n
               /\ Len(S.c.heap[S.vec[k.v].buf]) = k.n
               /\ S.vec[k.v].size = vec[k.v].size
               /\ Elems(S.c.heap, S.vec[k.v]) = Elems(heap, vec[k.v])

\* C15: copy-assigning a vector to itself and move-assigning a vector to
\* itself leave its size, capacity, block and every element unchanged, with
\* no element constructed, assigned or destroyed.
SelfAssignCalls == {k \in CopyAssignCalls \cup MoveAssignCalls : k.v = k.w}
C15_SelfAssignment ==
    \A k \in SelfAssignCalls : \A S \in {Run(k)} :
        /\ S.vec = vec /\ S.c.heap = heap
        /\ S.c.nc = 0 /\ S.c.na = 0 /\ S.c.nd = 0
        /\ S.c.faults = {} /\ ~S.c.threw
\* Both self-assignments of a vector with two different elements.
C15_Witness ==
    \E v \in AliveVecs :
        /\ vec[v].size = 2
        /\ Live(heap[vec[v].buf][1]) /\ Live(heap[vec[v].buf][2])
        /\ heap[vec[v].buf][1] # heap[vec[v].buf][2]
        /\ \E k \in CopyAssignCalls : k.v = v /\ k.w = v /\ Run(k).vec[v].size = 2
        /\ \E k \in MoveAssignCalls : k.v = v /\ k.w = v /\ Run(k).vec[v].size = 2

\* C16: once every vector has been destroyed, every element ever constructed
\* has been destroyed exactly once and every block ever allocated has been
\* deallocated exactly once.  Stated call by call: no call, the destructor
\* included, releases a block that still holds an element, constructs over
\* an element or destroys a slot without one, and after every call each
\* allocated block belongs to exactly one vector, so none is left when the
\* last vector is gone.
LossFaults == {"dealloc_live", "construct_over_live", "destroy_raw"}
Owners(vc, b) == {v \in Vecs : vc[v].alive /\ vc[v].buf = b}
C16_AllDestroyedOnce ==
    \A k \in AllCalls : \A S \in {Run(k)} :
        /\ S.c.faults \cap LossFaults = {}
        /\ \A b \in BlockIds : S.c.heap[b] # <<>> => Cardinality(Owners(S.vec, b)) = 1

\* C17: in every reachable state, the states left by operations that threw
\* included, every vector has size <= capacity, and its block is the null
\* block exactly when its capacity is 0.
C17_SizeWithinCapacity ==
    \A v \in AliveVecs :
        /\ vec[v].size <= vec[v].cap
        /\ vec[v].buf = Null <=> vec[v].cap = 0
        /\ vec[v].buf # Null => Len(heap[vec[v].buf]) = vec[v].cap
\* A vector with a spare slot next to one with no block, in a state an
\* operation that threw can leave behind.
C17_Witness ==
    /\ \E v \in AliveVecs : 0 < vec[v].size /\ vec[v].size < vec[v].cap
    /\ \E v \in AliveVecs : vec[v].cap = 0 /\ vec[v].buf = Null
    /\ \E k \in AllCalls : Run(k).c.threw /\ CanonVec(Run(k).vec) = vec
                            /\ CanonHeap(Run(k).vec, Run(k).c.heap) = heap

\* C18: every reallocating operation (Reserve, both PushBack overloads,
\* EmplaceBack, Emplace/Insert with its prefix and suffix) relocates the
\* existing elements by move when the element type's move constructor is
\* non-throwing or the type is not copyable, and by copy otherwise; under copy
\* relocation the originals keep their values until they are destroyed, after
\* the new block is completely built, so a call that threw leaves them as
\* they were.
MoveRelocated == NothrowMoveConstructible(T) \/ ~CopyConstructible(T)
C18_RelocationRule ==
    \A k \in Reallocating : \A S \in {Run(k)} :
        /\ MoveRelocated => S.c.ncp = 0
        /\ ~MoveRelocated => S.c.nmv = 0
        /\ ~S.c.threw =>
               IF MoveRelocated THEN S.c.nmv = vec[k.v].size ELSE S.c.ncp = vec[k.v].size
        /\ S.c.threw /\ ~MoveRelocated =>
               /\ S.vec[k.v] = vec[k.v]
               /\ Slots(S.c.heap, S.vec[k.v]) = Slots(heap, vec[k.v])
\* A full vector of two elements of a copy-relocated type: an Emplace in the
\* middle copies a prefix and a suffix, and one that throws after the prefix
\* was copied.
C18_Witness ==
    /\ ~MoveRelocated
    /\ \E k \in EmplaceCalls :
           /\ Full(k.v) /\ vec[k.v].size = 2 /\ k.index = 1
           /\ ~Run(k).c.threw /\ Run(k).c.ncp = 2
    /\ \E k \in EmplaceCalls :
           /\ Full(k.v) /\ vec[k.v].size = 2 /\ k.index = 1 /\ k.f = 2
           /\ Run(k).c.threw /\ Run(k).c.ncp = 1
    /\ \E k \in ReserveCalls : k.n > vec[k.v].cap /\ Run(k).c.ncp = 2
    /\ \E k \in PushBackCalls : Full(k.v) /\ Run(k).c.ncp = 2

\* C19: when the argument of PushBack(const T&), EmplaceBack or
\* Insert/Emplace refers to an element of the same vector, a call that
\* returns has inserted the value that element had before the call and the
\* existing elements keep their values, in place and when reallocating, for
\* move-relocated and copy-relocated element types alike.
AliasCalls == {k \in PushBackCopyCalls \cup EmplaceBackCalls \cup EmplaceCalls : k.arg.src = "elem"}
InsertIndex(k) == IF k.op = "Emplace" THEN k.index ELSE vec[k.v].size
C19_Aliasing ==
    \A k \in AliasCalls : \A S \in {Run(k)} :
        ~S.c.threw =>
            Elems(S.c.heap, S.vec[k.v])
                = Inserted(Elems(heap, vec[k.v]), InsertIndex(k), heap[vec[k.v].buf][k.arg.idx + 1])

====
